---- MODULE Spec2Model ----
(***************************************************************************)
(* whatspace: two capacity probers for removable storage.                  *)
(*   maxspace  - one large file, a sector written and read back at every   *)
(*               10 MiB stride (VerifyTheFile).                            *)
(*   spacechk  - many 10 MiB segment files (CreateFiles, VerifyFiles).     *)
(* The device, the file system cache and the directory are the             *)
(* environment: their answers to each API call are chosen here.            *)
(***************************************************************************)
EXTENDS Integers, Sequences, FiniteSets, TLC

\* ------------------------------------------------------------------ sizes
KiB == 1024
MiB == KiB * 1024

\* maxspace: verification block size (the stride)
verifySize == 10 * MiB

\* spacechk: file I/O size (the segment size)
fileIOSize == 10 * MiB

\* ------------------------------------------------------------------ bounds
\* strides of the single file (maxspace)
MaxBlocks == 2

\* whole segments the free space holds (spacechk)
MaxFiles == 2

\* ------------------------------------------------------------------ buffers
\* A 64-bit word is an integer; the word of eight 0xFF bytes is written
\* AllOnes (its value as a signed 64-bit integer).
AllOnes == 0 - 1

FillWord(byte) == IF byte = 0 THEN 0 ELSE AllOnes

\* The four byte offsets of a buffer of `size` bytes that carry the marker.
StampOffsets(size) == {o * (size \div 4) : o \in 0..3}

\* A buffer of `size` bytes is its four marker words, keyed by byte offset,
\* and the byte every other position holds.
Memset(size, byte) ==
    [fill |-> byte, word |-> [p \in StampOffsets(size) |-> FillWord(byte)]]

\* A marker without the + 1.
MarkerFromZero(index) == index

\* The marker of the unit with a zero-based index.
Marker(index) == index + 1

\* A stamping loop that stops after its first pass.
StampFirstOnly(buf, dataOffsets, value) ==
    [buf EXCEPT !.word = [p \in DOMAIN buf.word |->
                            IF p = 0 THEN value ELSE buf.word[p]]]

\* for (o = 0; o < 4; o++) *(uint64_t*)(buffer + o * dataOffsets) = value
Stamp(buf, dataOffsets, value) ==
    [buf EXCEPT !.word = [p \in DOMAIN buf.word |->
                            IF p \in {o * dataOffsets : o \in 0..3}
                            THEN value ELSE buf.word[p]]]

\* The first of the four offsets whose word differs from `value`, or -1.
FirstBad(buf, dataOffsets, value) ==
    LET bad == {o \in 0..3 : buf.word[o * dataOffsets] # value}
    IN  IF bad = {} THEN 0 - 1
        ELSE CHOOSE o \in bad : \A q \in bad : o <= q

\* An allocation aligned to the distance between two markers only.
QuarterAlignedMalloc(size, alignment) == alignment \div 4

\* _aligned_malloc(size, alignment): the alignment of the block returned
AlignedMalloc(size, alignment) == alignment

\* OutputSize(msg, inSize): the size handed to the size report.
OutputSize(msg, inSize) == [msg |-> msg, size |-> inSize]

\* ------------------------------------------------------------ file names
\* Strings are sequences of one-character strings.
filePrefix == <<"s", "p">>

DotBin == <<".", "b", "i", "n">>

HexDigits ==
    <<"0", "1", "2", "3", "4", "5", "6", "7",
      "8", "9", "a", "b", "c", "d", "e", "f">>

\* minimum field width of %06llx
HexWidth == 6

RECURSIVE ToHex(_)
\* %llx: the hexadecimal digits of n, most significant first
ToHex(n) ==
    IF n < 16 THEN <<HexDigits[n + 1]>>
    ELSE ToHex(n \div 16) \o <<HexDigits[(n % 16) + 1]>>

\* %06llx: zero-padded to six digits, longer when n needs more
Fmt06llx(n) ==
    LET d == ToHex(n)
    IN  [k \in 1..(IF Len(d) < HexWidth THEN HexWidth - Len(d) ELSE 0) |-> "0"] \o d

SegmentNameDash(i) == filePrefix \o <<"-">> \o Fmt06llx(i) \o DotBin

\* swprintf_s(writeName, L"%hs%s%06llx.bin", pathName, filePrefix, i),
\* without the path
SegmentName(i) == filePrefix \o Fmt06llx(i) \o DotBin

\* wcschr(s, c): the index of the first c in s, 0 for a null pointer
Wcschr(s, c) ==
    LET at == {k \in 1..Len(s) : s[k] = c}
    IN  IF at = {} THEN 0 ELSE CHOOSE k \in at : \A q \in at : k <= q

HexValue(c) == (CHOOSE k \in 1..16 : HexDigits[k] = c) - 1

IsHexDigit(c) == \E k \in 1..16 : HexDigits[k] = c

\* swscanf_s(s, L"%llx", &seqNum): the value of the longest run of
\* hexadecimal digits s starts with; ok is FALSE when there is none and
\* seqNum is left as it was.
ScanHex(s) ==
    LET stop == {k \in 1..Len(s) : ~IsHexDigit(s[k])}
        n    == IF stop = {} THEN Len(s)
                ELSE (CHOOSE k \in stop : \A q \in stop : k <= q) - 1
        val[k \in 0..n] == IF k = 0 THEN 0 ELSE val[k - 1] * 16 + HexValue(s[k])
    IN  [ok |-> n > 0, value |-> val[n]]

\* The characters after position k.
After(s, k) == SubSeq(s, k + 1, Len(s))

\* ================================================================ state
VARIABLES
    \* ---- maxspace
    args,       \* VerifyTheFile's parameters: bytesPerSector, noReads, cached
    dev,        \* the device behind the file: kind, at, stale
    fileLen,    \* size of verifysp.bin as CreateVerifyFile left it
    disk,       \* sector at each stride offset, as the device holds it
    cache,      \* sectors the file system cache holds (cached handles only)
    pc,         \* VerifyTheFile's position
    vtf,        \* VerifyTheFile's locals
    returned,   \* VerifyTheFile's return value, "none" while running
    output,     \* the size reports printed, in order
    ioLog,      \* the seeks, writes and reads issued: call, offset, length
    fault,      \* the first failure met: kind and block offset
    mpc,        \* position in maxspace's main and CreateVerifyFile
    cvf,        \* CreateVerifyFile: its handle, the steps run, the failed step
    del,        \* DeleteVerifyFile's outcome, "none" before it is called
    status,     \* maxspace's exit status, "none" while it runs
    \* ---- spacechk
    sargs,      \* main's pathName, bytesPerSector and free space
    sdev,       \* the device behind the segment files: kind, at
    dir,        \* the entries matching sp*.bin: name -> isDir, len, data
    spc,        \* position in main, CreateFiles or VerifyFiles
    flags,      \* progActions of the running invocation
    cf,         \* CreateFiles' locals
    vf,         \* VerifyFiles' locals
    df,         \* DeleteFiles' locals, the names it tried and failed to delete
    sret,       \* return value of the last CreateFiles or VerifyFiles
    sout,       \* size reports printed by the running invocation
    made,       \* sequence numbers whose file the running CreateFiles created
    sfault,     \* the first failure of the running phase: kind and number
    lastCreate, \* how the last CreateFiles on this device ended
    exit,       \* exit status of the last invocation, "none" before it ends
    \* ---- main of either program, from the command line to its first phase
    prog,       \* "maxspace" or "spacechk", "none" when main is not modelled
    argv,       \* argv[1..argc-1]
    start       \* main's locals, the calls it made, its exit status

\* what VerifyTheFile reads and writes
vtfVars == <<args, dev, fileLen, disk, cache, pc, vtf, returned, output,
             ioLog, fault>>

\* what main and CreateVerifyFile write
mainVars == <<mpc, cvf, del, status>>

oneVars == <<vtfVars, mainVars>>

\* what CreateFiles, VerifyFiles and main read and write
phaseVars == <<sargs, sdev, dir, spc, flags, cf, vf, sret, sout, made,
               sfault, lastCreate, exit>>

segVars == <<phaseVars, df>>

startVars == <<prog, argv, start>>

vars == <<oneVars, segVars, startVars>>

\* ------------------------------------------------------------ environment
\* Sector sizes a device reports (GetDiskFreeSpaceA).
SectorSizes == {512, 4096}

\* Offsets where a counterfeit device starts to misbehave: on a stride,
\* one sector past it, and in the middle of a stride.
FaultPoints(bps) ==
    {b * verifySize + d : b \in 0..MaxBlocks, d \in {0, bps, verifySize \div 2}}

\* Sizes of the allocated file: whole strides, with or without one more sector.
FileSizes(bps) ==
    {b * verifySize + d : b \in 0..MaxBlocks, d \in {0, bps}} \ {0}

\* kind "good":      stores what is written, every call succeeds
\*      "discard":   reports success, drops writes at or beyond `at`
\*      "truncated": a write that would cross `at` fails
\*      "flaky":     any call may fail or transfer short
\*      "mute":      a read at or beyond `at` reports success and the full
\*                   length, and stores nothing in the caller's buffer
\* stale: the byte unwritten sectors hold (no zero fill after SetFileValidData)
Devices(bps) ==
    [kind : {"good", "flaky"}, at : {0}, stale : {0, 255}]
    \cup [kind : {"discard", "truncated"}, at : FaultPoints(bps), stale : {0, 255}]
    \cup [kind : {"mute"}, at : {b * verifySize : b \in 0..MaxBlocks}, stale : {0}]

\* for (i = 0; i < fileSize; i += verifySize): the offsets the loop visits
StrideOffsets(size) == {k * verifySize : k \in 0..((size - 1) \div verifySize)}

\* What a call may answer on this device.
CallOutcomes == IF dev.kind = "flaky" THEN {"ok", "fail"} ELSE {"ok"}

TransferOutcomes == IF dev.kind = "flaky" THEN {"ok", "fail", "short"} ELSE {"ok"}

\* WriteFile(verifyFile, verifyBuffer, bytesPerSector, ...) at offset `off`
WriteOutcomes(off, len) ==
    IF dev.kind = "truncated"
    THEN (IF off + len > dev.at THEN {"fail"} ELSE {"ok"})
    ELSE TransferOutcomes

\* The device after a write it reported as successful.
DiskAfterWrite(off, buf) ==
    IF dev.kind = "discard" /\ off >= dev.at
    THEN disk
    ELSE [disk EXCEPT ![off] = buf]

\* The size of the file after a write of len bytes at off that succeeded: a
\* write that ends past the end of the file extends it.
FileEndAfterWrite(off, len) == IF off + len > fileLen THEN off + len ELSE fileLen

\* The cache after a write: a cached handle keeps the written sector.
CacheAfterWrite(cached, off, buf) ==
    IF cached THEN [p \in DOMAIN cache \cup {off} |->
                        IF p = off THEN buf ELSE cache[p]]
    ELSE cache

\* A read that always goes to the device.
ReadDataNoCache(cached, off) == disk[off]

\* ReadFile: a cached handle is served from the cache when it holds the
\* sector, an uncached one (FILE_FLAG_NO_BUFFERING) from the device.
ReadData(cached, off) ==
    IF cached /\ off \in DOMAIN cache THEN cache[off] ELSE disk[off]

\* ReadFile(verifyFile, verifyBuffer, bytesPerSector, ...) reporting success:
\* what verifyBuffer holds afterwards.
ReadInto(buf, cached, off) ==
    IF cached /\ off \in DOMAIN cache THEN ReadData(cached, off)
    ELSE IF dev.kind = "mute" /\ off >= dev.at THEN buf
    ELSE ReadData(cached, off)

\* A buffer left as the write filled it.
KeepBuffer(buf, size) == buf

\* memset(verifyBuffer, 0xFF, bytesPerSector)
ResetBuffer(buf, size) == Memset(size, 255)

\* ------------------------------------------------------------- maxspace
FaultReport(out) == out.msg # "is"

\* verifyName == INVALID_HANDLE_VALUE: the name buffer's address is
\* compared, which is never the invalid handle value.
OpenFailureSeen(handle) == FALSE

\* CommonVerifyCleanup(verifyFile, verifyBuffer)
CommonVerifyCleanup(rec) ==
    [rec EXCEPT !.verifyFile = IF @ = "open" THEN "closed" ELSE @,
                !.badClose   = (rec.verifyFile = "INVALID"),
                !.allocated  = FALSE]

\* A failure exit that reports and goes on with the next block.
FailGoesOn(kind, at, reportsOut) ==
    /\ fault' = [kind |-> kind, at |-> at]
    /\ output' = output \o reportsOut
    /\ vtf' = [vtf EXCEPT !.count = @ + 1, !.i = @ + verifySize]
    /\ returned' = returned
    /\ pc' = "loop"

\* A failure exit of VerifyTheFile: report (when the path reports), clean up,
\* return false.
Fail(kind, at, reportsOut) ==
    /\ fault' = [kind |-> kind, at |-> at]
    /\ output' = output \o reportsOut
    /\ vtf' = CommonVerifyCleanup(vtf)
    /\ returned' = "false"
    /\ pc' = "done"

CvfIdle == [writeFile |-> "none", steps |-> <<>>, failed |-> "none"]

InitOne ==
    /\ mpc = "cvf_privilege"
    /\ cvf = CvfIdle
    /\ del = "none"
    /\ status = "none"
    /\ \E bps \in SectorSizes :
         /\ args \in [bytesPerSector : {bps}, noReads : BOOLEAN, cached : BOOLEAN]
         /\ dev \in Devices(bps)
         /\ fileLen \in FileSizes(bps)
    /\ disk = [p \in StrideOffsets(fileLen) |->
                  Memset(args.bytesPerSector, dev.stale)]
    /\ cache = <<>>
    /\ pc = "open"
    /\ vtf = [verifyFile |-> "INVALID", allocated |-> FALSE, align |-> 0,
              badClose |-> FALSE,
              verifyBuffer |-> Memset(args.bytesPerSector, 0),
              fileSize |-> 0, totalBlocks |-> 0, i |-> 0, count |-> 0]
    /\ returned = "none"
    /\ output = <<>>
    /\ ioLog = <<>>
    /\ fault = [kind |-> "none", at |-> 0]

\* A failed step of CreateVerifyFile after which the next step is run.
CvfFailGoesOn(step, closes, next) ==
    /\ cvf' = [cvf EXCEPT !.steps = Append(@, step), !.failed = step]
    /\ mpc' = next
    /\ UNCHANGED status

\* A failed step of CreateVerifyFile: CloseHandle(writeFile) on the paths
\* that hold the handle, return false; main prints "File creation failed"
\* and returns 1.
CvfFail(step, closes, next) ==
    /\ cvf' = [cvf EXCEPT !.steps = Append(@, step) \o
                                      (IF closes THEN <<"close">> ELSE <<>>),
                          !.failed = step,
                          !.writeFile = IF closes \/ step = "close" THEN "closed"
                                        ELSE IF step = "create" THEN "INVALID"
                                        ELSE @]
    /\ mpc' = "exit"
    /\ status' = 1

\* A step of CreateVerifyFile that succeeded.
CvfOk(step, handle, next) ==
    /\ cvf' = [cvf EXCEPT !.steps = Append(@, step), !.writeFile = handle]
    /\ mpc' = next
    /\ UNCHANGED status

\* AddPrivelege(SE_MANAGE_VOLUME_NAME)
CVF_Privilege ==
    /\ mpc = "cvf_privilege"
    /\ \E r \in CallOutcomes :
         IF r = "fail" THEN CvfFail("privilege", FALSE, "cvf_create")
         ELSE CvfOk("privilege", cvf.writeFile, "cvf_create")
    /\ UNCHANGED <<vtfVars, del>>

\* writeFile = CreateFile(writeName, GENERIC_WRITE, ..., CREATE_ALWAYS, ...)
CVF_Create ==
    /\ mpc = "cvf_create"
    /\ \E r \in CallOutcomes :
         IF r = "fail" THEN CvfFail("create", FALSE, "cvf_seek")
         ELSE CvfOk("create", "open", "cvf_seek")
    /\ UNCHANGED <<vtfVars, del>>

\* SetFilePointerEx(writeFile, totalSpace, nullptr, FILE_BEGIN)
CVF_Seek ==
    /\ mpc = "cvf_seek"
    /\ \E r \in CallOutcomes :
         IF r = "fail" THEN CvfFail("seek", TRUE, "cvf_eof")
         ELSE CvfOk("seek", cvf.writeFile, "cvf_eof")
    /\ UNCHANGED <<vtfVars, del>>

\* SetEndOfFile(writeFile)
CVF_SetEnd ==
    /\ mpc = "cvf_eof"
    /\ \E r \in CallOutcomes :
         IF r = "fail" THEN CvfFail("eof", TRUE, "cvf_valid")
         ELSE CvfOk("eof", cvf.writeFile, "cvf_valid")
    /\ UNCHANGED <<vtfVars, del>>

\* SetFileValidData(writeFile, fileOffset.QuadPart)
CVF_SetValid ==
    /\ mpc = "cvf_valid"
    /\ \E r \in CallOutcomes :
         IF r = "fail" THEN CvfFail("valid", TRUE, "cvf_close")
         ELSE CvfOk("valid", cvf.writeFile, "cvf_close")
    /\ UNCHANGED <<vtfVars, del>>

\* CloseHandle(writeFile); return true, and main goes on to VerifyTheFile
CVF_Close ==
    /\ mpc = "cvf_close"
    /\ \E r \in CallOutcomes :
         IF r = "fail" THEN CvfFail("close", FALSE, "verify")
         ELSE CvfOk("close", "closed", "verify")
    /\ UNCHANGED <<vtfVars, del>>

\* returnStatus: 1 when VerifyTheFile or DeleteVerifyFile returned false
ReturnStatus(verified, deleted) == IF verified /\ deleted THEN 0 ELSE 1

\* main after VerifyTheFile: DeleteVerifyFile, return returnStatus
Main_Delete ==
    /\ mpc = "verify"
    /\ pc = "done"
    /\ \E r \in CallOutcomes :
         /\ del' = r
         /\ status' = ReturnStatus(returned = "true", r = "ok")
    /\ mpc' = "exit"
    /\ UNCHANGED <<vtfVars, cvf>>

\* verifyFile = CreateFile(..., OPEN_EXISTING, fileAttributes, ...)
VTF_Open ==
    /\ mpc = "verify"
    /\ pc = "open"
    /\ \E r \in CallOutcomes :
         LET h == IF r = "ok" THEN "open" ELSE "INVALID" IN
         IF OpenFailureSeen(h)
         THEN /\ fault' = [kind |-> "open", at |-> 0]
              /\ returned' = "false"
              /\ pc' = "done"
              /\ vtf' = [vtf EXCEPT !.verifyFile = h]
         ELSE /\ vtf' = [vtf EXCEPT !.verifyFile = h]
              /\ pc' = "size"
              /\ UNCHANGED <<fault, returned>>
    /\ UNCHANGED <<args, dev, fileLen, disk, cache, output, ioLog>>

\* A size query that answers for any handle value.
SizeOfAnyHandle(handle, r) == r = "fail"

\* !GetFileSizeEx(verifyFile, &fileSize): the call fails on a handle that
\* is not an open file, INVALID_HANDLE_VALUE included.
GetFileSizeFails(handle, r) == r = "fail" \/ handle # "open"

\* GetFileSizeEx(verifyFile, &fileSize); totalBlocks
VTF_GetSize ==
    /\ pc = "size"
    /\ \E r \in CallOutcomes :
         IF GetFileSizeFails(vtf.verifyFile, r)
         THEN Fail("size", 0, <<>>)
         ELSE /\ vtf' = [vtf EXCEPT !.fileSize = fileLen,
                                    !.totalBlocks = fileLen \div verifySize]
              /\ pc' = "alloc"
              /\ UNCHANGED <<fault, returned, output>>
    /\ UNCHANGED <<args, dev, fileLen, disk, cache, ioLog>>

\* verifyBuffer = _aligned_malloc(bytesPerSector, bytesPerSector); i = 0
VTF_Alloc ==
    /\ pc = "alloc"
    /\ \E r \in CallOutcomes :
         IF r = "fail"
         THEN Fail("alloc", 0, <<>>)
         ELSE /\ vtf' = [vtf EXCEPT !.allocated = TRUE, !.i = 0, !.count = 0,
                                    !.align = AlignedMalloc(args.bytesPerSector,
                                                            args.bytesPerSector)]
              /\ pc' = "loop"
              /\ UNCHANGED <<fault, returned, output>>
    /\ UNCHANGED <<args, dev, fileLen, disk, cache, ioLog>>

\* A loop that also visits the offset the file ends at.
LoopRunsToEnd(i, size) == i <= size

\* i < fileSize.QuadPart
LoopRuns(i, size) == i < size

\* for (...; i < fileSize.QuadPart; ...), and the epilogue after the loop
VTF_Loop ==
    /\ pc = "loop"
    /\ IF LoopRuns(vtf.i, vtf.fileSize)
       THEN /\ pc' = "seek"
            /\ UNCHANGED <<vtf, returned, output>>
       ELSE /\ output' = Append(output, OutputSize("is", vtf.fileSize))
            /\ vtf' = CommonVerifyCleanup(vtf)
            /\ returned' = "true"
            /\ pc' = "done"
    /\ UNCHANGED <<args, dev, fileLen, disk, cache, ioLog, fault>>

\* SetFilePointerEx to i, then memset 0 and stamp count + 1
VTF_Seek ==
    /\ pc = "seek"
    /\ ioLog' = Append(ioLog, <<"seek", vtf.i, 0>>)
    /\ \E r \in CallOutcomes :
         IF r = "fail"
         THEN Fail("seek", vtf.i, <<OutputSize("Reached", vtf.i)>>)
         ELSE /\ vtf' = [vtf EXCEPT !.verifyBuffer =
                            Stamp(Memset(args.bytesPerSector, 0),
                                  args.bytesPerSector \div 4, Marker(vtf.count))]
              /\ pc' = "write"
              /\ UNCHANGED <<fault, returned, output>>
    /\ UNCHANGED <<args, dev, fileLen, disk, cache>>

\* WriteFile and the written != bytesPerSector check
VTF_Write ==
    /\ pc = "write"
    /\ ioLog' = Append(ioLog, <<"write", vtf.i, args.bytesPerSector>>)
    /\ \E r \in WriteOutcomes(vtf.i, args.bytesPerSector) :
         CASE r = "fail" ->
                /\ Fail("write", vtf.i, <<OutputSize("Reached", vtf.i)>>)
                /\ UNCHANGED <<disk, cache, fileLen>>
           [] r = "short" ->
                /\ Fail("shortwrite", vtf.i, <<OutputSize(" ", vtf.i)>>)
                /\ UNCHANGED <<disk, cache, fileLen>>
           [] OTHER ->
                /\ disk' = DiskAfterWrite(vtf.i, vtf.verifyBuffer)
                /\ cache' = CacheAfterWrite(args.cached, vtf.i, vtf.verifyBuffer)
                /\ fileLen' = FileEndAfterWrite(vtf.i, args.bytesPerSector)
                /\ pc' = IF args.noReads THEN "next" ELSE "seekback"
                /\ UNCHANGED <<vtf, fault, returned, output>>
    /\ UNCHANGED <<args, dev>>

\* if (!noReads): SetFilePointerEx back to i, then memset 0xFF
VTF_SeekBack ==
    /\ pc = "seekback"
    /\ ioLog' = Append(ioLog, <<"seek", vtf.i, 0>>)
    /\ \E r \in CallOutcomes :
         IF r = "fail"
         THEN Fail("seek", vtf.i, <<OutputSize("Reached", vtf.i)>>)
         ELSE /\ vtf' = [vtf EXCEPT !.verifyBuffer =
                            ResetBuffer(@, args.bytesPerSector)]
              /\ pc' = "read"
              /\ UNCHANGED <<fault, returned, output>>
    /\ UNCHANGED <<args, dev, fileLen, disk, cache>>

\* ReadFile and the bytesRead != bytesPerSector check
VTF_Read ==
    /\ pc = "read"
    /\ ioLog' = Append(ioLog, <<"read", vtf.i, args.bytesPerSector>>)
    /\ \E r \in TransferOutcomes :
         CASE r = "fail" ->
                Fail("read", vtf.i, <<OutputSize("Reached", vtf.i)>>)
           [] r = "short" ->
                Fail("shortread", vtf.i, <<OutputSize("", vtf.i)>>)
           [] OTHER ->
                /\ vtf' = [vtf EXCEPT !.verifyBuffer =
                                   ReadInto(@, args.cached, vtf.i)]
                /\ pc' = "check"
                /\ UNCHANGED <<fault, returned, output>>
    /\ UNCHANGED <<args, dev, fileLen, disk, cache>>

\* the comparison of the four words with count + 1
VTF_Check ==
    /\ pc = "check"
    /\ IF FirstBad(vtf.verifyBuffer, args.bytesPerSector \div 4,
                   Marker(vtf.count)) # 0 - 1
       THEN Fail("mismatch", vtf.i, <<OutputSize("", vtf.i)>>)
       ELSE /\ pc' = "next"
            /\ UNCHANGED <<vtf, fault, returned, output>>
    /\ UNCHANGED <<args, dev, fileLen, disk, cache, ioLog>>

\* count ++ and the loop's i += verifySize
VTF_NextBlock ==
    /\ pc = "next"
    /\ vtf' = [vtf EXCEPT !.count = @ + 1, !.i = @ + verifySize]
    /\ pc' = "loop"
    /\ UNCHANGED <<args, dev, fileLen, disk, cache, returned, output, ioLog, fault>>

\* ------------------------------------------------------------- spacechk
pathName == <<"e", ":", "\\">>

\* The progActions a command line selects (create, verify, keepverifying,
\* delete).
FlagSets ==
    {{"create"}, {"verify"}, {"verify", "keepverifying"},
     {"create", "verify"}, {"create", "verify", "keepverifying"},
     {"delete"}, {"create", "delete"}, {"create", "verify", "delete"}}

\* Capacities of a truncated device: on a segment boundary and inside one.
SegFaultPoints ==
    {b * fileIOSize + d : b \in 0..MaxFiles, d \in {0, fileIOSize \div 2}}

\* kind "good":      stores what is written, every call succeeds
\*      "truncated": files are placed in order; a write crossing `at` fails
\*      "flaky":     any call may fail or transfer short
SegDevices ==
    [kind : {"good", "flaky"}, at : {0}]
    \cup [kind : {"truncated"}, at : SegFaultPoints]

\* Free space the device reports: whole segments, with or without a rest.
FreeSpaces(bps) ==
    {n * fileIOSize + d : n \in 0..MaxFiles, d \in {0, bps}} \ {0}

\* A complete segment file holding `value` at the four offsets.
SegmentFile(value) ==
    [isDir |-> FALSE, len |-> fileIOSize,
     data |-> Stamp(Memset(fileIOSize, 0), fileIOSize \div 4, value)]

DirectoryEntry == [isDir |-> TRUE, len |-> 0, data |-> Memset(fileIOSize, 0)]

DirName == filePrefix \o <<"d">> \o DotBin

\* The entries named `names`; a segment file holds its marker when its
\* number is in `good` and reads back as zeros otherwise.
DirOf(names, good) ==
    [n \in names |->
        IF n = DirName THEN DirectoryEntry
        ELSE LET j == ScanHex(After(n, IF n[3] = "-" THEN 3 ELSE 2)).value
             IN  SegmentFile(IF j \notin good THEN 0 ELSE Marker(j))]

\* Directories the program may be started on: k files an earlier creation
\* left complete (sp000000.bin ...), or the first of them reading back as
\* zeros, or m files named sp-<hex>.bin, or a subdirectory matching sp*.bin
\* beside at most one earlier file.
InitialDirs ==
    {DirOf({SegmentName(j) : j \in 0..(k - 1)}, 0..MaxFiles) : k \in 0..MaxFiles}
    \cup {DirOf({SegmentName(0)}, {})}
    \cup {DirOf({SegmentNameDash(j) : j \in 0..(m - 1)}, good) :
             m \in {1, 2}, good \in SUBSET {0, 1}}
    \cup {DirOf({DirName} \cup {SegmentName(j) : j \in 0..(k - 1)}, 0..MaxFiles) :
             k \in 0..1}

\* The sector size the drives under test report (4 KiB).
SegSectorSizes == {4096}

SegCallOutcomes == IF sdev.kind = "flaky" THEN {"ok", "fail"} ELSE {"ok"}

SegReadOutcomes == IF sdev.kind = "flaky" THEN {"ok", "fail", "short"} ELSE {"ok"}

\* WriteFile(writeFile, writeBuffer, fileIOSize, ...) for the file numbered i
SegWriteOutcomes(i) ==
    IF sdev.kind = "truncated"
    THEN (IF (i + 1) * fileIOSize > sdev.at THEN {"fail"} ELSE {"ok"})
    ELSE IF sdev.kind = "flaky" THEN {"ok", "fail", "short"} ELSE {"ok"}

RECURSIVE Perms(_)
\* The orders in which FindFirstFile / FindNextFile may return the entries.
Perms(S) ==
    IF S = {} THEN {<<>>}
    ELSE UNION {{<<x>> \o p : p \in Perms(S \ {x})} : x \in S}

\* Values an uninitialised uint64_t may hold.
Indeterminate == {0, 1}

\* seqNum after swscanf_s(seqPtr + 1, L"%llx", &seqNum), seqPtr at index k
SeqNums(name, k) ==
    LET r == ScanHex(After(name, k))
    IN  IF r.ok THEN {r.value} ELSE Indeterminate

Max(a, b) == IF a >= b THEN a ELSE b

RECURSIVE PriorFrom(_, _, _)
\* FindPriorFiles' loop over the entries in the order given, from entry k
\* with maxSeq so far: the values it may return.
PriorFrom(order, k, maxSeq) ==
    IF k > Len(order) THEN {maxSeq}
    ELSE IF dir[order[k]].isDir THEN PriorFrom(order, k + 1, maxSeq)
    ELSE LET seqPtr == Wcschr(order[k], "-")
         IN  IF seqPtr = 0 THEN {maxSeq}
             ELSE UNION {PriorFrom(order, k + 1, Max(seqNum, maxSeq)) :
                            seqNum \in SeqNums(order[k], seqPtr)}

\* FindPriorFiles(pathName)
FindPriorFiles ==
    IF DOMAIN dir = {} THEN {0}
    ELSE UNION {PriorFrom(order, 1, 0) : order \in Perms(DOMAIN dir)}

\* for (uint64_t i = 0; ...): the number CreateFiles starts at
FirstFile(startFile) == 0

\* The end of CreateFiles, VerifyFiles or DeleteFiles: the value returned
\* to main.
Return(op, ok) ==
    /\ sret' = ok
    /\ lastCreate' = IF op = "create" THEN (IF ok THEN "ok" ELSE "failed")
                     ELSE lastCreate
    /\ spc' = CASE op = "create" -> "cf_ret"
                [] op = "verify" -> "vf_ret"
                [] OTHER         -> "df_ret"

NoFault == [kind |-> "none", seq |-> 0, name |-> <<>>]

CfIdle ==
    [totalFiles |-> 0, startFile |-> 0, i |-> 0, allocated |-> FALSE, align |-> 0,
     writeFile |-> "none", writeBuffer |-> Memset(fileIOSize, 0)]

VfIdle ==
    [findHandle |-> "none", findData |-> <<>>, rest |-> {}, allocated |-> FALSE,
     align |-> 0,
     verifyFile |-> "none", verifyBuffer |-> Memset(fileIOSize, 0),
     bytesRead |-> 0, count |-> 0, seqNum |-> 0]

DfIdle ==
    [findHandle |-> "none", findData |-> <<>>, rest |-> {}, found |-> {},
     count |-> 0, tried |-> <<>>, failed |-> {}]

\* maxspace is not running
OneIdle ==
    /\ args = [bytesPerSector |-> 512, noReads |-> FALSE, cached |-> FALSE]
    /\ dev = [kind |-> "good", at |-> 0, stale |-> 0]
    /\ fileLen = 0
    /\ disk = <<>>
    /\ cache = <<>>
    /\ mpc = "off"
    /\ cvf = CvfIdle
    /\ del = "none"
    /\ status = "none"
    /\ pc = "off"
    /\ vtf = [verifyFile |-> "INVALID", allocated |-> FALSE, align |-> 0,
              badClose |-> FALSE,
              verifyBuffer |-> Memset(512, 0),
              fileSize |-> 0, totalBlocks |-> 0, i |-> 0, count |-> 0]
    /\ returned = "none"
    /\ output = <<>>
    /\ ioLog = <<>>
    /\ fault = [kind |-> "none", at |-> 0]

\* spacechk is not running
SegIdle ==
    /\ sargs = [pathName |-> pathName, bytesPerSector |-> 512, freeSpace |-> 0]
    /\ sdev = [kind |-> "good", at |-> 0]
    /\ dir = <<>>
    /\ spc = "off"
    /\ flags = {}
    /\ cf = CfIdle
    /\ vf = VfIdle
    /\ df = DfIdle
    /\ sret = FALSE
    /\ sout = <<>>
    /\ made = <<>>
    /\ sfault = NoFault
    /\ lastCreate = "none"
    /\ exit = "none"

InitSeg ==
    /\ \E bps \in SegSectorSizes :
         sargs \in [pathName : {pathName}, bytesPerSector : {bps},
                    freeSpace : FreeSpaces(bps)]
    /\ sdev \in SegDevices
    /\ dir \in InitialDirs
    /\ spc = "idle"
    /\ flags = {}
    /\ cf = CfIdle
    /\ vf = VfIdle
    /\ df = DfIdle
    /\ sret = FALSE
    /\ sout = <<>>
    /\ made = <<>>
    /\ sfault = NoFault
    /\ lastCreate = "none"
    /\ exit = "none"

\* A main that goes on to the next phase whatever the last one returned.
PhaseFailureIgnored(ok) == FALSE

\* if (!CreateFiles(...)) / if (!VerifyFiles(...)): print and return 1
PhaseFailed(ok) == ~ok

\* main, from the command line to the first phase it runs
Main_Start ==
    /\ spc = "idle"
    /\ \E f \in FlagSets :
         /\ flags' = f
         /\ spc' = IF "create" \in f THEN "cf_begin"
                   ELSE IF "verify" \in f THEN "vf_begin"
                   ELSE "df_begin"
    /\ exit' = "none"
    /\ sout' = <<>>
    /\ made' = <<>>
    /\ sfault' = NoFault
    /\ cf' = CfIdle
    /\ vf' = VfIdle
    /\ df' = DfIdle
    /\ UNCHANGED <<sargs, sdev, dir, sret, lastCreate>>

\* A plan that rounds the last partial segment up.
TotalFilesRoundedUp(totalSpace) == (totalSpace + fileIOSize - 1) \div fileIOSize

\* uint64_t totalFiles = totalSpace / fileIOSize
TotalFiles(totalSpace) == totalSpace \div fileIOSize

\* CreateFiles up to the loop: totalFiles, the buffer, FindPriorFiles
CF_Begin ==
    /\ spc = "cf_begin"
    /\ \E r \in SegCallOutcomes :
         IF r = "fail"
         THEN /\ sfault' = [kind |-> "alloc", seq |-> 0, name |-> <<>>]
              /\ Return("create", FALSE)
              /\ UNCHANGED cf
         ELSE /\ \E startFile \in FindPriorFiles :
                   cf' = [cf EXCEPT !.totalFiles = TotalFiles(sargs.freeSpace),
                                    !.allocated = TRUE,
                                    !.align = AlignedMalloc(fileIOSize,
                                                    sargs.bytesPerSector),
                                    !.writeBuffer = Memset(fileIOSize, 0),
                                    !.startFile = startFile,
                                    !.i = FirstFile(startFile)]
              /\ spc' = "cf_loop"
              /\ UNCHANGED <<sfault, sret, lastCreate>>
    /\ UNCHANGED <<sargs, sdev, dir, flags, vf, sout, made, exit>>

\* for (...; i < totalFiles; ...), and the epilogue after the loop
CF_Loop ==
    /\ spc = "cf_loop"
    /\ IF cf.i < cf.totalFiles
       THEN /\ spc' = "cf_create"
            /\ UNCHANGED <<cf, sout, sret, lastCreate>>
       ELSE /\ cf' = [cf EXCEPT !.allocated = FALSE]
            /\ sout' = Append(sout, OutputSize("taking", cf.totalFiles * fileIOSize))
            /\ Return("create", TRUE)
    /\ UNCHANGED <<sargs, sdev, dir, flags, vf, made, sfault, exit>>

\* CreateFile(writeName, ..., CREATE_ALWAYS, ...), then the stamping of i + 1
CF_Create ==
    /\ spc = "cf_create"
    /\ LET writeName == SegmentName(cf.i) IN
       \E r \in SegCallOutcomes :
         IF r = "fail" \/ (writeName \in DOMAIN dir /\ dir[writeName].isDir)
         THEN /\ sfault' = [kind |-> "create", seq |-> cf.i, name |-> writeName]
              /\ cf' = [cf EXCEPT !.allocated = FALSE]
              /\ Return("create", FALSE)
              /\ UNCHANGED <<dir, made>>
         ELSE /\ dir' = [n \in DOMAIN dir \cup {writeName} |->
                            IF n = writeName
                            THEN [isDir |-> FALSE, len |-> 0,
                                  data |-> Memset(fileIOSize, 0)]
                            ELSE dir[n]]
              /\ made' = Append(made, cf.i)
              /\ cf' = [cf EXCEPT !.writeFile = "open",
                                  !.writeBuffer = Stamp(cf.writeBuffer,
                                        fileIOSize \div 4, Marker(cf.i))]
              /\ spc' = "cf_write"
              /\ UNCHANGED <<sfault, sret, lastCreate>>
    /\ UNCHANGED <<sargs, sdev, flags, vf, sout, exit>>

\* A report of the offset after the failing file.
ReachedPastFile(i) == (i + 1) * fileIOSize

\* OutputSize(L"Reached", i * fileIOSize) after a failed WriteFile
ReachedOnWrite(i) == i * fileIOSize

\* WriteFile, the written != fileIOSize check, CloseHandle, i++
CF_Write ==
    /\ spc = "cf_write"
    /\ LET writeName == SegmentName(cf.i) IN
       \E r \in SegWriteOutcomes(cf.i) :
         CASE r = "fail" ->
                /\ sfault' = [kind |-> "write", seq |-> cf.i, name |-> writeName]
                /\ sout' = Append(sout, OutputSize("Reached", ReachedOnWrite(cf.i)))
                /\ cf' = [cf EXCEPT !.allocated = FALSE]
                /\ Return("create", FALSE)
                /\ UNCHANGED dir
           [] r = "short" ->
                /\ sfault' = [kind |-> "shortwrite", seq |-> cf.i, name |-> writeName]
                /\ dir' = [dir EXCEPT ![writeName].len = fileIOSize \div 2]
                /\ cf' = [cf EXCEPT !.allocated = FALSE]
                /\ Return("create", FALSE)
                /\ UNCHANGED sout
           [] OTHER ->
                /\ dir' = [dir EXCEPT ![writeName].len = fileIOSize,
                                      ![writeName].data = cf.writeBuffer]
                /\ cf' = [cf EXCEPT !.writeFile = "closed", !.i = @ + 1]
                /\ spc' = "cf_loop"
                /\ UNCHANGED <<sfault, sout, sret, lastCreate>>
    /\ UNCHANGED <<sargs, sdev, flags, vf, made, exit>>

\* main after CreateFiles: exit 1 on failure, else on to the next phase
Main_AfterCreate ==
    /\ spc = "cf_ret"
    /\ IF PhaseFailed(sret)
       THEN /\ exit' = 1
            /\ spc' = "idle"
       ELSE IF "verify" \in flags
       THEN /\ spc' = "vf_begin"
            /\ UNCHANGED exit
       ELSE IF "delete" \in flags
       THEN /\ spc' = "df_begin"
            /\ UNCHANGED exit
       ELSE /\ exit' = 0
            /\ spc' = "idle"
    /\ sfault' = NoFault
    /\ UNCHANGED <<sargs, sdev, dir, flags, cf, vf, df, sret, sout, made,
                   lastCreate>>

\* The reports of the comparison loop for one file: one per offset whose
\* word differs from seqNum + 1, only the first unless keepGoing.
MismatchReports(buf, seqNum, keepGoing) ==
    LET bad == {o \in 0..3 : buf.word[o * (fileIOSize \div 4)] # Marker(seqNum)}
        all == [k \in 1..Cardinality(bad) |->
                   OutputSize("Reached", (seqNum + 1) * fileIOSize)]
    IN  IF keepGoing \/ bad = {} THEN all ELSE SubSeq(all, 1, 1)

\* Whether VerifyFiles goes on after the comparison of one file:
\* a mismatch returns false only if (!keepGoing).
VerifyGoesOn(mismatch, keepGoing) == ~mismatch \/ keepGoing

\* VerifyFiles up to the loop: FindFirstFile, the buffer
VF_Begin ==
    /\ spc = "vf_begin"
    /\ IF DOMAIN dir = {}
       THEN /\ sfault' = [kind |-> "find", seq |-> 0, name |-> <<>>]
            /\ Return("verify", FALSE)
            /\ UNCHANGED vf
       ELSE \E first \in DOMAIN dir, r \in SegCallOutcomes :
              IF r = "fail"
              THEN /\ sfault' = [kind |-> "alloc", seq |-> 0, name |-> <<>>]
                   /\ vf' = [vf EXCEPT !.findHandle = "open", !.findData = first,
                                       !.rest = DOMAIN dir \ {first}]
                   /\ Return("verify", FALSE)
              ELSE /\ vf' = [vf EXCEPT !.findHandle = "open", !.findData = first,
                                       !.rest = DOMAIN dir \ {first},
                                       !.allocated = TRUE, !.count = 0,
                                       !.align = AlignedMalloc(fileIOSize,
                                                       sargs.bytesPerSector)]
                   /\ spc' = "vf_entry"
                   /\ UNCHANGED <<sfault, sret, lastCreate>>
    /\ UNCHANGED <<sargs, sdev, dir, flags, cf, sout, made, exit>>

\* the FILE_ATTRIBUTE_DIRECTORY test and CreateFile(..., OPEN_EXISTING, ...)
VF_Entry ==
    /\ spc = "vf_entry"
    /\ IF dir[vf.findData].isDir
       THEN /\ spc' = "vf_next"
            /\ UNCHANGED <<vf, sfault, sret, lastCreate>>
       ELSE \E r \in SegCallOutcomes :
              IF r = "fail"
              THEN /\ sfault' = [kind |-> "open", seq |-> 0, name |-> vf.findData]
                   /\ vf' = [vf EXCEPT !.allocated = FALSE]
                   /\ Return("verify", FALSE)
              ELSE /\ vf' = [vf EXCEPT !.verifyFile = "open"]
                   /\ spc' = "vf_read"
                   /\ UNCHANGED <<sfault, sret, lastCreate>>
    /\ UNCHANGED <<sargs, sdev, dir, flags, cf, sout, made, exit>>

\* ReadFile, CloseHandle and the bytesRead != fileIOSize check
VF_Read ==
    /\ spc = "vf_read"
    /\ \E r \in SegReadOutcomes :
         LET file == dir[vf.findData]
             bytesRead == IF r = "short" THEN file.len \div 2 ELSE file.len
         IN
         CASE r = "fail" ->
                /\ sfault' = [kind |-> "read", seq |-> 0, name |-> vf.findData]
                /\ vf' = [vf EXCEPT !.allocated = FALSE, !.verifyFile = "closed"]
                /\ Return("verify", FALSE)
           [] bytesRead # fileIOSize ->
                /\ sfault' = [kind |-> "shortread", seq |-> 0, name |-> vf.findData]
                /\ vf' = [vf EXCEPT !.allocated = FALSE, !.verifyFile = "closed",
                                    !.bytesRead = bytesRead]
                /\ Return("verify", FALSE)
           [] OTHER ->
                /\ vf' = [vf EXCEPT !.verifyFile = "closed", !.bytesRead = bytesRead,
                                    !.verifyBuffer = file.data]
                /\ spc' = "vf_check"
                /\ UNCHANGED <<sfault, sret, lastCreate>>
    /\ UNCHANGED <<sargs, sdev, dir, flags, cf, sout, made, exit>>

\* wcschr(verifyName, '-'), swscanf_s, the comparison loop, count ++
VF_Check ==
    /\ spc = "vf_check"
    /\ LET verifyName == sargs.pathName \o vf.findData
           seqPtr     == Wcschr(verifyName, "-")
           keepGoing  == "keepverifying" \in flags
       IN
       IF seqPtr = 0
       THEN /\ sfault' = [kind |-> "noseq", seq |-> 0, name |-> vf.findData]
            /\ vf' = [vf EXCEPT !.allocated = FALSE]
            /\ Return("verify", FALSE)
            /\ UNCHANGED sout
       ELSE \E seqNum \in SeqNums(verifyName, seqPtr) :
              LET reports  == MismatchReports(vf.verifyBuffer, seqNum, keepGoing)
                  mismatch == reports # <<>>
              IN
              /\ sout' = sout \o reports
              /\ sfault' = IF mismatch /\ sfault.kind = "none"
                           THEN [kind |-> "mismatch", seq |-> seqNum,
                                 name |-> vf.findData]
                           ELSE sfault
              /\ IF VerifyGoesOn(mismatch, keepGoing)
                 THEN /\ vf' = [vf EXCEPT !.seqNum = seqNum, !.count = @ + 1]
                      /\ spc' = "vf_next"
                      /\ UNCHANGED <<sret, lastCreate>>
                 ELSE /\ vf' = [vf EXCEPT !.seqNum = seqNum, !.allocated = FALSE]
                      /\ Return("verify", FALSE)
    /\ UNCHANGED <<sargs, sdev, dir, flags, cf, made, exit>>

\* An enumeration that ends after its first entry.
FirstEntryOnly(rest) == FALSE

\* FindNextFile(findHandle, &findData): true while entries are left
FindNextFile(rest) == rest # {}

\* while (FindNextFile(findHandle, &findData)), and the epilogue
VF_Next ==
    /\ spc = "vf_next"
    /\ IF FindNextFile(vf.rest)
       THEN /\ \E next \in vf.rest :
                 vf' = [vf EXCEPT !.findData = next, !.rest = @ \ {next}]
            /\ spc' = "vf_entry"
            /\ UNCHANGED <<sout, sret, lastCreate>>
       ELSE /\ vf' = [vf EXCEPT !.findHandle = "closed", !.allocated = FALSE]
            /\ sout' = Append(sout, OutputSize("taking", vf.count * fileIOSize))
            /\ Return("verify", TRUE)
    /\ UNCHANGED <<sargs, sdev, dir, flags, cf, made, sfault, exit>>

\* main after VerifyFiles: exit 1 on failure, else on to the next phase
Main_AfterVerify ==
    /\ spc = "vf_ret"
    /\ IF PhaseFailed(sret)
       THEN /\ exit' = 1
            /\ spc' = "idle"
       ELSE IF "delete" \in flags
       THEN /\ spc' = "df_begin"
            /\ UNCHANGED exit
       ELSE /\ exit' = 0
            /\ spc' = "idle"
    /\ UNCHANGED <<sargs, sdev, dir, flags, cf, vf, df, sret, sout, made,
                   sfault, lastCreate>>

\* A deletion pass that stops at the first file it cannot delete.
DeleteStopsOnFailure(deleted) == deleted

\* if (!DeleteFile(deleteName)) PrintError(...): the pass goes on
DeleteGoesOn(deleted) == TRUE

\* DeleteFiles up to the loop: FindFirstFile
DF_Begin ==
    /\ spc = "df_begin"
    /\ IF DOMAIN dir = {}
       THEN /\ sfault' = [kind |-> "find", seq |-> 0, name |-> <<>>]
            /\ df' = [df EXCEPT !.findHandle = "INVALID"]
            /\ Return("delete", FALSE)
       ELSE /\ \E first \in DOMAIN dir :
                 df' = [df EXCEPT !.findHandle = "open", !.findData = first,
                                  !.rest = DOMAIN dir \ {first},
                                  !.found = DOMAIN dir, !.count = 0]
            /\ spc' = "df_entry"
            /\ UNCHANGED <<sfault, sret, lastCreate>>
    /\ UNCHANGED <<sargs, sdev, dir, flags, cf, vf, sout, made, exit>>

\* the FILE_ATTRIBUTE_DIRECTORY test, DeleteFile(deleteName), count ++
DF_Entry ==
    /\ spc = "df_entry"
    /\ IF dir[df.findData].isDir
       THEN /\ spc' = "df_next"
            /\ UNCHANGED <<df, dir, sret, lastCreate>>
       ELSE \E r \in SegCallOutcomes :
              /\ dir' = IF r = "ok"
                        THEN [n \in DOMAIN dir \ {df.findData} |-> dir[n]]
                        ELSE dir
              /\ IF DeleteGoesOn(r = "ok")
                 THEN /\ df' = [df EXCEPT !.tried = Append(@, df.findData),
                                          !.failed = IF r = "ok" THEN @
                                                     ELSE @ \cup {df.findData},
                                          !.count = @ + 1]
                      /\ spc' = "df_next"
                      /\ UNCHANGED <<sret, lastCreate>>
                 ELSE /\ df' = [df EXCEPT !.tried = Append(@, df.findData),
                                          !.failed = @ \cup {df.findData}]
                      /\ Return("delete", FALSE)
    /\ UNCHANGED <<sargs, sdev, flags, cf, vf, sout, made, sfault, exit>>

\* while (FindNextFile(findHandle, &findData)), FindClose and the epilogue
DF_Next ==
    /\ spc = "df_next"
    /\ IF df.rest # {}
       THEN /\ \E next \in df.rest :
                 df' = [df EXCEPT !.findData = next, !.rest = @ \ {next}]
            /\ spc' = "df_entry"
            /\ UNCHANGED <<sout, sret, lastCreate>>
       ELSE /\ df' = [df EXCEPT !.findHandle = "closed"]
            /\ sout' = Append(sout, OutputSize("taking", df.count * fileIOSize))
            /\ Return("delete", TRUE)
    /\ UNCHANGED <<sargs, sdev, dir, flags, cf, vf, made, sfault, exit>>

\* main after DeleteFiles: exit 1 on failure, else exit 0
Main_AfterDelete ==
    /\ spc = "df_ret"
    /\ exit' = IF sret THEN 0 ELSE 1
    /\ spc' = "idle"
    /\ UNCHANGED <<sargs, sdev, dir, flags, cf, vf, df, sret, sout, made,
                   sfault, lastCreate>>

\* ================================================================ main
\* ---------------------------------------------------- 32- and 64-bit values
\* A DWORD or a 64-bit integer is its bytes, least significant first.
RECURSIVE Bytes(_, _)
\* The w bytes of a small number n.
Bytes(n, w) == IF w = 0 THEN <<>> ELSE <<n % 256>> \o Bytes(n \div 256, w - 1)

\* The largest DWORD, 0xFFFFFFFF.
DWordMax == <<255, 255, 255, 255>>

\* 0x80000000
DWordHigh == <<0, 0, 0, 128>>

Digit(a, i) == IF i <= Len(a) THEN a[i] ELSE 0

\* Conversion to a wider integer type.
Widen(a, w) == [k \in 1..w |-> Digit(a, k)]

IsZero(a) == \A k \in 1..Len(a) : a[k] = 0

\* The sum of the byte products that fall on byte k of a product.
Column(a, b, k) ==
    LET RECURSIVE Sum(_)
        Sum(i) == IF i = 0 THEN 0
                  ELSE Sum(i - 1) + Digit(a, i) * Digit(b, k - i + 1)
    IN  Sum(k)

\* a * b in an integer type of w bytes: the low w bytes of the product.
Multiply(a, b, w) ==
    LET RECURSIVE Go(_, _)
        Go(k, carry) ==
            IF k > w THEN <<>>
            ELSE LET t == Column(a, b, k) + carry
                 IN  <<t % 256>> \o Go(k + 1, t \div 256)
    IN  Go(1, 0)

\* The space computed in DWORD arithmetic and widened afterwards.
SpaceInDWords(bytesPerSector, sectorsPerCluster, clusters) ==
    Widen(Multiply(Multiply(bytesPerSector, sectorsPerCluster, 4), clusters, 4), 8)

\* int64_t / uint64_t space = bytesPerSector; space *= sectorsPerCluster;
\* space *= clusters
SpaceOf(bytesPerSector, sectorsPerCluster, clusters) ==
    Multiply(Multiply(Widen(bytesPerSector, 8), sectorsPerCluster, 8), clusters, 8)

\* A 64-bit value read as signed is negative.
Negative(a) == a[8] >= 128

\* ------------------------------------------------------------ command line
\* The options each program knows.
Options(p) ==
    IF p = "maxspace" THEN {"-stats", "-cached", "-noreads"}
    ELSE {"-stats", "-create", "-verify", "-keepverifying", "-delete"}

\* A drive that exists, and one that does not.
ValidPath == "e:\\"

InvalidPath == "x:\\"

\* What a user may type after the program name.
Tokens ==
    {"-stats", "-cached", "-noreads", "-create", "-verify", "-keepverifying",
     "-delete", ValidPath, InvalidPath}

\* The command lines: argc - 1 arguments.
MaxArgs == 2

CommandLines == UNION {[1..n -> Tokens] : n \in 0..MaxArgs}

\* GetDriveType(widePath) is one of DRIVE_REMOVABLE, DRIVE_FIXED,
\* DRIVE_REMOTE, DRIVE_RAMDISK
DriveTypeValid(path) == path = ValidPath

\* ourActions = progActions::justPath / progActions = checkActions::noActions
NoActions(p) == IF p = "maxspace" THEN {"justPath"} ELSE {}

\* The statistics GetDiskFreeSpaceA may return.
DiskStats ==
    [bytesPerSector    : {Bytes(512, 4), Bytes(4096, 4), DWordHigh},
     sectorsPerCluster : {Bytes(1, 4), Bytes(8, 4), DWordMax},
     freeClusters      : {Bytes(0, 4), Bytes(1, 4), Bytes(MiB, 4), DWordMax},
     totalClusters     : {Bytes(MiB, 4), DWordMax}]

NoStats ==
    [bytesPerSector |-> Bytes(0, 4), sectorsPerCluster |-> Bytes(0, 4),
     freeClusters |-> Bytes(0, 4), totalClusters |-> Bytes(0, 4)]

MainIdle ==
    [pos |-> "off", pathName |-> "nullptr", actions |-> {}, calls |-> <<>>,
     stats |-> NoStats, freeSpace |-> Bytes(0, 8), totalSpace |-> Bytes(0, 8),
     status |-> "none"]

\* main is not modelled: the phases run with the arguments Init chose
StartIdle ==
    /\ prog = "none"
    /\ argv = <<>>
    /\ start = MainIdle

InitStart ==
    /\ prog \in {"maxspace", "spacechk"}
    /\ argv \in CommandLines
    /\ start = [MainIdle EXCEPT !.pos = "args", !.actions = NoActions(prog)]

RECURSIVE ParseFrom(_, _)
\* The argument loop from argv[i] on, with the locals in r: it ends at the
\* first argument that is neither an option nor a valid drive path.
ParseFrom(i, r) ==
    IF i > Len(argv) THEN r
    ELSE IF argv[i] \in Options(prog)
    THEN ParseFrom(i + 1, [r EXCEPT !.actions = @ \cup {argv[i]}])
    ELSE IF DriveTypeValid(argv[i])
    THEN ParseFrom(i + 1, [r EXCEPT !.pathName = argv[i],
                                    !.calls = Append(@, "GetDriveType")])
    ELSE [r EXCEPT !.pathName = argv[i],
                   !.calls = @ \o <<"GetDriveType", "invalid option or drive path">>,
                   !.status = 1, !.pos = "exit"]

\* if (progActions == checkActions::noActions) { Usage(argv[0]); return 1; }
\* (spacechk only)
UsageWhenNoActions(r) ==
    IF r.pos # "exit" /\ prog = "spacechk" /\ r.actions = NoActions(prog)
    THEN [r EXCEPT !.calls = Append(@, "Usage"), !.status = 1, !.pos = "exit"]
    ELSE r

\* main: the argc test, the argument loop, the test for options
Main_ParseArgs ==
    /\ start.pos = "args"
    /\ start' = IF Len(argv) < 1
            THEN [start EXCEPT !.calls = Append(@, "Usage"), !.status = 1, !.pos = "exit"]
            ELSE LET r == UsageWhenNoActions(ParseFrom(1, start))
                 IN  IF r.pos = "exit" THEN r ELSE [r EXCEPT !.pos = "query"]
    /\ UNCHANGED <<prog, argv>>

\* GetDiskFreeSpaceA(pathName, ...): with a null path it answers for the
\* current drive
Main_GetDiskFreeSpace ==
    /\ start.pos = "query"
    /\ \/ start' = [start EXCEPT !.calls = Append(@, "GetDiskFreeSpaceA"),
                         !.status = 1, !.pos = "exit"]
       \/ \E st \in DiskStats :
            start' = [start EXCEPT !.calls = Append(@, "GetDiskFreeSpaceA"),
                           !.stats = st, !.pos = "sizes"]
    /\ UNCHANGED <<prog, argv>>

\* The first phase main calls.
FirstPhase ==
    IF prog = "maxspace" THEN "CreateVerifyFile"
    ELSE IF "-create" \in start.actions THEN "CreateFiles"
    ELSE IF "-verify" \in start.actions THEN "VerifyFiles"
    ELSE IF "-delete" \in start.actions THEN "DeleteFiles"
    ELSE "none"

\* main: freeSpace and totalSpace, the sanity check (maxspace), the
\* statistics printed, and the call of the first phase
Main_Sizes ==
    /\ start.pos = "sizes"
    /\ LET freeSpace  == SpaceOf(start.stats.bytesPerSector, start.stats.sectorsPerCluster,
                                 start.stats.freeClusters)
           totalSpace == SpaceOf(start.stats.bytesPerSector, start.stats.sectorsPerCluster,
                                 start.stats.totalClusters)
           insane     == /\ prog = "maxspace"
                         /\ \/ Negative(freeSpace) \/ IsZero(freeSpace)
                            \/ Negative(totalSpace) \/ IsZero(totalSpace)
           printed    == IF "-stats" \in start.actions THEN <<"stats">> ELSE <<>>
       IN
       start' = IF insane
            THEN [start EXCEPT !.freeSpace = freeSpace, !.totalSpace = totalSpace,
                           !.status = 1, !.pos = "exit"]
            ELSE IF FirstPhase = "none"
            THEN [start EXCEPT !.freeSpace = freeSpace, !.totalSpace = totalSpace,
                           !.calls = @ \o printed, !.status = 0, !.pos = "exit"]
            ELSE [start EXCEPT !.freeSpace = freeSpace, !.totalSpace = totalSpace,
                           !.calls = @ \o printed \o <<FirstPhase>>,
                           !.pos = "phases"]
    /\ UNCHANGED <<prog, argv>>

\* ================================================================ claims
\* ------------------------------------------------- maxspace, helpers
\* The multiples of 10 MiB below n.
StridesBelow(n) == {p \in {k * verifySize : k \in 0..(n \div verifySize)} : p < n}

MinOf(S) == CHOOSE x \in S : \A y \in S : x <= y

\* The reports of a fault among the size reports printed.
FaultReports == SelectSeq(output, FaultReport)

\* The offsets of the operations `op` issued so far.
Issued(op) == {ioLog[k][2] : k \in {q \in 1..Len(ioLog) : ioLog[q][1] = op}}

\* The sector holds `value` at offsets 0, s/4, s/2, 3s/4.
HoldsMarker(buf, s, value) ==
    \A p \in {0, s \div 4, s \div 2, (3 * s) \div 4} : buf.word[p] = value

\* A pass with read verification on a cache-bypassing handle against a
\* device that drops the writes at or beyond dev.at inside the file.
DiscardRun ==
    /\ pc # "off"
    /\ dev.kind = "discard"
    /\ dev.at < fileLen
    /\ ~args.noReads

\* The pass has caught the dropped writes: it failed with a mismatch at the
\* first stride offset at or beyond dev.at, its only report.
CaughtAtFirstStride ==
    /\ returned = "false"
    /\ fault.kind = "mismatch"
    /\ {p \in StridesBelow(fileLen) : p >= dev.at} # {}
    /\ fault.at = MinOf({p \in StridesBelow(fileLen) : p >= dev.at})
    /\ FaultReports = <<OutputSize("", fault.at)>>

\* C1 as claimed: against a device that reports every write successful and
\* drops the writes at or beyond D, the cache-bypassing pass with read
\* verification returns failure, with a mismatch reported at the first
\* stride offset i >= D and no fault reported below D.
C1_Claim ==
    (DiscardRun /\ ~args.cached) =>
        /\ \A k \in 1..Len(FaultReports) : FaultReports[k].size >= dev.at
        /\ (pc = "done" => CaughtAtFirstStride)

\* C1, amended: the same, provided some stride offset at or beyond D lies
\* below the file size (D is not past the last block the pass samples).
C1_Amended ==
    (DiscardRun /\ ~args.cached) =>
        /\ \A k \in 1..Len(FaultReports) : FaultReports[k].size >= dev.at
        /\ (pc = "done" /\ {p \in StridesBelow(fileLen) : p >= dev.at} # {}
              => CaughtAtFirstStride)

C1_Witness ==
    /\ DiscardRun /\ ~args.cached
    /\ pc = "done"
    /\ fault.kind = "mismatch"
    /\ fault.at >= verifySize
    /\ dev.at < fault.at
    /\ dev.at > fault.at - verifySize

\* The failure kinds of a pass.
C4_Kinds == {"seek", "write", "shortwrite", "read", "shortread", "mismatch"}

\* The pass has ended on its fault: failure returned, one report, giving
\* the offset of the failing operation, which is the last one issued.
C4_Ended ==
    fault.kind \in C4_Kinds =>
        /\ pc = "done"
        /\ returned = "false"
        /\ FaultReports = <<[msg |-> FaultReports[1].msg, size |-> fault.at]>>
        /\ Len(FaultReports) = Len(output)
        /\ ioLog # <<>>
        /\ ioLog[Len(ioLog)][2] = fault.at
        /\ ioLog[Len(ioLog)][1] =
              (CASE fault.kind \in {"write", "shortwrite"} -> "write"
                 [] fault.kind \in {"read", "shortread", "mismatch"} -> "read"
                 [] OTHER -> "seek")
        /\ \A k \in 1..Len(ioLog) : ioLog[k][2] <= fault.at

\* C4: the first seek failure, write failure, short write, read failure,
\* short read or mismatch at block offset i ends the pass: it returns
\* failure, its one fault report gives i, the failing operation at i is the
\* last one issued, and no seek, write or read follows.
C4_FailStops ==
    [](C4_Ended) /\ [][fault.kind \in C4_Kinds => ioLog' = ioLog]_vars

C4_Witness ==
    /\ pc = "done"
    /\ fault.kind = "shortread"
    /\ fault.at = verifySize
    /\ Len(ioLog) > 4

\* C9 as claimed: with reads served from the cache the pass against the
\* write-dropping device reports no fault and returns success, and the same
\* pass on a cache-bypassing handle returns failure.
C9_Claim ==
    (DiscardRun /\ pc = "done") =>
        IF args.cached
        THEN returned = "true" /\ FaultReports = <<>> /\ fault.kind = "none"
        ELSE returned = "false"

\* C9, amended: the cached pass reports no fault and returns success; the
\* cache-bypassing pass returns failure provided some stride offset at or
\* beyond D lies below the file size.
C9_Amended ==
    (DiscardRun /\ pc = "done") =>
        IF args.cached
        THEN returned = "true" /\ FaultReports = <<>> /\ fault.kind = "none"
        ELSE ({p \in StridesBelow(fileLen) : p >= dev.at} # {}
                 => returned = "false")

C9_Witness ==
    /\ DiscardRun /\ args.cached
    /\ pc = "done"
    /\ returned = "true"
    /\ dev.at = 0
    /\ fileLen > verifySize
    /\ \A p \in DOMAIN disk : ~HoldsMarker(disk[p], args.bytesPerSector, 1 + p \div verifySize)

\* C10: on a fault-free device and a cache-bypassing handle, the block
\* written at c x 10 MiB and read back holds c + 1 at offsets 0, s/4, s/2 and
\* 3s/4, for every block c, and the pass returns success after visiting
\* every stride offset below the file size.
C10_RoundTrip ==
    (pc # "off" /\ dev.kind = "good" /\ ~args.cached /\ ~args.noReads) =>
        /\ pc = "check" =>
              /\ vtf.i = vtf.count * verifySize
              /\ HoldsMarker(vtf.verifyBuffer, args.bytesPerSector, vtf.count + 1)
        /\ pc = "done" =>
              /\ returned = "true"
              /\ FaultReports = <<>>
              /\ Issued("write") = StridesBelow(fileLen)
              /\ Issued("read") = StridesBelow(fileLen)

C10_Witness ==
    /\ dev.kind = "good" /\ ~args.cached /\ ~args.noReads
    /\ pc = "check"
    /\ vtf.count = 1
    /\ dev.stale = 255
    /\ HoldsMarker(vtf.verifyBuffer, args.bytesPerSector, 2)

\* ------------------------------------------------- spacechk, helpers
\* The sequence number a segment file's name encodes (sp<hex>.bin or
\* sp-<hex>.bin).
NameSeq(n) == ScanHex(After(n, IF n[3] = "-" THEN 3 ELSE 2)).value

\* The segment files in the directory.
SegmentFiles == {n \in DOMAIN dir : ~dir[n].isDir}

\* The files named as CreateFiles names them.
CreatedStyle == {n \in SegmentFiles : n[3] # "-"}

\* The file is complete and holds its marker at the four offsets.
FileMatches(n) ==
    /\ dir[n].len = fileIOSize
    /\ HoldsMarker(dir[n].data, fileIOSize, NameSeq(n) + 1)

\* The names the running CreateFiles has created so far.
MadeNames == {SegmentName(made[k]) : k \in 1..Len(made)}

C3_Claim ==
    ( /\ spc = "vf_ret"
      /\ sdev.kind = "good"
      /\ lastCreate = "ok"
      /\ sargs.freeSpace >= fileIOSize
      /\ DOMAIN dir = {SegmentName(j) : j \in 0..((sargs.freeSpace \div fileIOSize) - 1)}
      /\ \A n \in DOMAIN dir : FileMatches(n) )
    => sret

\* C5 as claimed: a file creation failure, write failure or short write at
\* number i aborts CreateFiles with failure, creates no segment above i and
\* reports i x 10 MiB.
C5_Claim ==
    (spc = "cf_ret" /\ sfault.kind \in {"create", "write", "shortwrite"}) =>
        /\ ~sret
        /\ \A k \in 1..Len(made) : made[k] <= sfault.seq
        /\ sout = <<OutputSize("Reached", sfault.seq * fileIOSize)>>

\* C6 as claimed: a read failure, short read or marker mismatch on the file
\* with number s makes VerifyFiles report (s + 1) x 10 MiB.
C6_Claim ==
    (spc = "vf_ret" /\ sfault.kind \in {"read", "shortread", "mismatch"}) =>
        \E k \in 1..Len(sout) :
            sout[k] = OutputSize("Reached", (NameSeq(sfault.name) + 1) * fileIOSize)

\* C7 as claimed: VerifyFiles returns success only if every enumerated
\* segment file holds its sequence number + 1 at all four offsets, with
\* keep-verifying off and on.
C7_Claim ==
    (spc = "vf_ret" /\ sret) => \A n \in SegmentFiles : FileMatches(n)

\* ------------------------------------------------- C8
\* A device whose capacity dev.at / sdev.at is below the advertised space.
OneTruncated == pc = "done" /\ dev.kind = "truncated" /\ dev.at < fileLen

SegTruncated ==
    spc = "cf_ret" /\ sdev.kind = "truncated" /\ sdev.at < sargs.freeSpace

\* Some sector the pass writes would cross the capacity.
OneCrosses ==
    \E p \in StridesBelow(fileLen) : p + args.bytesPerSector > dev.at

\* Some segment CreateFiles plans would cross the capacity.
SegCrosses == sdev.at < (sargs.freeSpace \div fileIOSize) * fileIOSize

Dist(a, b) == IF a >= b THEN a - b ELSE b - a

\* The write step of VerifyTheFile stopped at the capacity.
OneStoppedAtCapacity ==
    /\ returned = "false"
    /\ fault.kind = "write"
    /\ FaultReports = <<OutputSize("Reached", fault.at)>>
    /\ Dist(fault.at, dev.at) <= verifySize
    /\ \A p \in StridesBelow(fileLen) :
          p + args.bytesPerSector <= dev.at =>
             /\ p < fault.at
             /\ HoldsMarker(disk[p], args.bytesPerSector, (p \div verifySize) + 1)

\* CreateFiles stopped at the capacity.
SegStoppedAtCapacity ==
    /\ ~sret
    /\ sfault.kind = "write"
    /\ Len(sout) = 1
    /\ sout[1].msg = "Reached"
    /\ sout[1].size <= sdev.at
    /\ sdev.at < sout[1].size + fileIOSize
    /\ \A j \in 0..MaxFiles :
          (j + 1) * fileIOSize <= sdev.at => FileMatches(SegmentName(j))

\* C8 as claimed: against a device of true capacity C below the advertised
\* free space, where a write that would cross C fails, the write phase
\* returns failure with a reported offset R, |R - C| <= 10 MiB, after every
\* unit wholly below C was written, and never completes successfully.
C8_Claim ==
    /\ OneTruncated => OneStoppedAtCapacity
    /\ SegTruncated => SegStoppedAtCapacity

\* C8, amended: the same, provided some unit the phase writes would cross C
\* (a planned segment, or the sector at a stride offset); otherwise the
\* phase completes with success and has written nothing beyond C.
C8_Amended ==
    /\ OneTruncated =>
          IF OneCrosses THEN OneStoppedAtCapacity
          ELSE /\ returned = "true"
               /\ \A p \in Issued("write") : p + args.bytesPerSector <= dev.at
    /\ SegTruncated =>
          IF SegCrosses THEN SegStoppedAtCapacity
          ELSE /\ sret
               /\ \A k \in 1..Len(made) : (made[k] + 1) * fileIOSize <= sdev.at

C8_Witness ==
    /\ SegTruncated
    /\ SegCrosses
    /\ sfault.kind = "write"
    /\ sfault.seq = 1
    /\ sdev.at = fileIOSize + fileIOSize \div 2
    /\ sout = <<OutputSize("Reached", fileIOSize)>>

\* ------------------------------------------------- C11
\* The buffer holds zero at each of the four stamped offsets.
ZeroStamps(buf, s) == HoldsMarker(buf, s, 0)

\* C11 as claimed: the marker expected for the unit with index i is i + 1,
\* never zero, so the comparison of a unit whose read-back buffer is all
\* zeros at the stamped offsets is reported as a mismatch, for every index,
\* in VerifyTheFile with reads enabled and in VerifyFiles.
C11_Claim ==
    [][ /\ (pc = "check" /\ ZeroStamps(vtf.verifyBuffer, args.bytesPerSector)) =>
              /\ fault'.kind = "mismatch"
              /\ output' = Append(output, OutputSize("", vtf.i))
        /\ (spc = "vf_check" /\ ZeroStamps(vf.verifyBuffer, fileIOSize)) =>
              /\ sfault'.kind = "mismatch"
              /\ Len(sout') > Len(sout)
              /\ sout'[Len(sout')].msg = "Reached"
      ]_vars

\* ------------------------------------------------- C12
\* The number n of whole segments the free space holds.
WholeSegments ==
    CHOOSE n \in 0..(MaxFiles + 1) :
        n * fileIOSize <= sargs.freeSpace /\ sargs.freeSpace < (n + 1) * fileIOSize

\* The bytes the running CreateFiles has written into the files it created.
BytesWritten ==
    LET RECURSIVE Sum(_)
        Sum(k) == IF k = 0 THEN 0
                  ELSE Sum(k - 1) + dir[SegmentName(made[k])].len
    IN  Sum(Len(made))

\* C12: CreateFiles plans floor(free space / 10 MiB) segments numbered
\* 0..n-1: no segment numbered n or above is created, whether or not the
\* free space is a multiple of 10 MiB, so on a fault-free device the bytes
\* written never exceed the free space, and creation ends with success after
\* creating exactly the files 0..n-1 (none when n = 0).
C12_PlansWholeSegments ==
    (spc \in {"cf_loop", "cf_create", "cf_write", "cf_ret"} /\ sdev.kind = "good") =>
        /\ made = [k \in 1..Len(made) |-> k - 1]
        /\ Len(made) <= WholeSegments
        /\ BytesWritten <= sargs.freeSpace
        /\ spc = "cf_ret" =>
              /\ sret
              /\ Len(made) = WholeSegments
              /\ BytesWritten = WholeSegments * fileIOSize
              /\ sout = <<OutputSize("taking", WholeSegments * fileIOSize)>>

C12_Witness ==
    /\ spc = "cf_ret"
    /\ sdev.kind = "good"
    /\ sargs.freeSpace = 2 * fileIOSize + sargs.bytesPerSector
    /\ made = <<0, 1>>
    /\ sret

\* ------------------------------------------------- C13
\* C13 as claimed: on a fault-free device VerifyTheFile processes exactly
\* floor(file size / 10 MiB) blocks, the count it announces, and writes or
\* reads no block in a trailing partial stride.
C13_Claim ==
    (pc = "done" /\ dev.kind = "good") =>
        /\ returned = "true"
        /\ vtf.totalBlocks = fileLen \div verifySize
        /\ vtf.count = vtf.totalBlocks
        /\ \A p \in Issued("write") \cup Issued("read") : p + verifySize <= fileLen

\* ------------------------------------------------- C14
\* The steps of CreateVerifyFile in the order of the code.
CvfOrder == <<"privilege", "create", "seek", "eof", "valid", "close">>

IsPrefix(a, b) == Len(a) <= Len(b) /\ a = SubSeq(b, 1, Len(a))

\* Nothing of VerifyTheFile has run.
ProbeNotStarted ==
    /\ pc = "open"
    /\ returned = "none"
    /\ ioLog = <<>>
    /\ vtf.verifyFile = "INVALID"

\* C14 as claimed: CreateVerifyFile runs acquire privilege, create file,
\* move file pointer, commit end-of-file, mark valid data, close in this
\* order; after the first step that fails no later step is run, the
\* program exits with status 1 and the probe pass is never started.
C14_Claim ==
    mpc # "off" =>
        /\ IsPrefix(cvf.steps, CvfOrder)
        /\ cvf.failed # "none" =>
              /\ cvf.steps[Len(cvf.steps)] = cvf.failed
              /\ mpc = "exit"
              /\ status = 1
              /\ ProbeNotStarted
        /\ ~ProbeNotStarted => (cvf.failed = "none" /\ cvf.steps = CvfOrder)

\* The steps run, without the close that follows a failed step.
CvfStepsBeforeCleanup ==
    IF cvf.failed \in {"seek", "eof", "valid"}
    THEN SubSeq(cvf.steps, 1, Len(cvf.steps) - 1)
    ELSE cvf.steps

\* C14, amended: the same, except that after a failed pointer move,
\* end-of-file commit or valid-data marking the one later step run is the
\* close of the file handle, before the failure is returned.
C14_Amended ==
    mpc # "off" =>
        /\ IsPrefix(CvfStepsBeforeCleanup, CvfOrder)
        /\ cvf.failed # "none" =>
              /\ CvfStepsBeforeCleanup[Len(CvfStepsBeforeCleanup)] = cvf.failed
              /\ cvf.failed \in {"seek", "eof", "valid"} =>
                    /\ cvf.steps[Len(cvf.steps)] = "close"
                    /\ cvf.writeFile = "closed"
              /\ mpc = "exit"
              /\ status = 1
              /\ ProbeNotStarted
        /\ ~ProbeNotStarted => (cvf.failed = "none" /\ cvf.steps = CvfOrder)

C14_Witness ==
    /\ mpc = "exit"
    /\ status = 1
    /\ cvf.failed = "eof"
    /\ cvf.steps = <<"privilege", "create", "seek", "eof", "close">>
    /\ ProbeNotStarted

\* ------------------------------------------------- C15
\* The names in a sequence.
Range(q) == {q[k] : k \in 1..Len(q)}

\* C15: DeleteFiles tries to delete every enumerated non-directory entry
\* exactly once, a failed deletion does not end the pass, it returns
\* success whenever the enumeration could start and failure only when
\* FindFirstFile found nothing; the files left are those it failed to
\* delete.
C15_DeletesEveryFile ==
    /\ spc \in {"df_entry", "df_next", "df_ret"} =>
          /\ Len(df.tried) = Cardinality(Range(df.tried))
          /\ df.failed \subseteq Range(df.tried)
    /\ spc = "df_ret" =>
          /\ sret = (df.findHandle # "INVALID")
          /\ sret =>
                /\ df.found # {}
                /\ Range(df.tried) = {n \in df.found : n \notin DOMAIN dir \/ ~dir[n].isDir}
                /\ SegmentFiles = df.failed
                /\ sout[Len(sout)] = OutputSize("taking", Len(df.tried) * fileIOSize)
          /\ ~sret =>
                /\ sfault.kind = "find"
                /\ df.tried = <<>>
                /\ DOMAIN dir = {}

C15_Witness ==
    /\ spc = "df_ret"
    /\ sret
    /\ Len(df.tried) = 2
    /\ df.failed = {df.tried[1]}
    /\ DOMAIN dir = df.failed

\* ------------------------------------------------- C16
\* C16 as claimed: maxspace calls DeleteVerifyFile after the probe pass
\* whether the pass succeeded or failed, and a failed deletion leaves the
\* verdict alone: the exit status is 0 after a successful pass and 1 after a
\* failed one, whatever DeleteVerifyFile returned.
C16_Claim ==
    (mpc = "exit" /\ returned # "none") =>
        /\ del # "none"
        /\ status = (IF returned = "true" THEN 0 ELSE 1)

\* ------------------------------------------------- C17
\* C17 as claimed: on every return path of CreateFiles, VerifyFiles,
\* DeleteFiles, CreateVerifyFile and VerifyTheFile every file handle and
\* enumeration handle the operation opened has been closed, and no close
\* was issued on a handle that was never validly opened.
C17_Claim ==
    /\ spc = "cf_ret" => cf.writeFile # "open"
    /\ spc = "vf_ret" => (vf.findHandle # "open" /\ vf.verifyFile # "open")
    /\ spc = "df_ret" => df.findHandle # "open"
    /\ mpc \in {"verify", "exit"} => cvf.writeFile # "open"
    /\ pc = "done" => (vtf.verifyFile # "open" /\ ~vtf.badClose)

\* ------------------------------------------------- C20
\* The power-of-two sector sizes, from 512 bytes to 2 MiB.
PowerOfTwoSectorSizes == {2 ^ k : k \in 9..21}

\* The cache-bypassing transfers VerifyTheFile has issued.
UnbufferedTransfers ==
    IF args.cached THEN {}
    ELSE {k \in 1..Len(ioLog) : ioLog[k][1] \in {"write", "read"}}

\* C20: every buffer passed to a write or read on a cache-bypassing handle
\* is allocated aligned to the sector size, and the transfer length (and in
\* VerifyTheFile the file offset) is a whole multiple of the sector size:
\* the 10 MiB buffer of CreateFiles and VerifyFiles and the one-sector
\* buffer of VerifyTheFile, for the sector size in use and, for the
\* lengths and strides, for every power-of-two sector size.
C20_AlignedTransfers ==
    /\ \A b \in PowerOfTwoSectorSizes :
          fileIOSize % b = 0 /\ verifySize % b = 0
    /\ args.bytesPerSector \in PowerOfTwoSectorSizes
    /\ sargs.bytesPerSector \in PowerOfTwoSectorSizes
    /\ \A k \in UnbufferedTransfers :
          /\ ioLog[k][2] % args.bytesPerSector = 0
          /\ ioLog[k][3] > 0
          /\ ioLog[k][3] % args.bytesPerSector = 0
          /\ vtf.align > 0
          /\ vtf.align % args.bytesPerSector = 0
    /\ spc = "cf_write" =>
          /\ cf.align > 0
          /\ cf.align % sargs.bytesPerSector = 0
          /\ fileIOSize % sargs.bytesPerSector = 0
    /\ spc = "vf_read" =>
          /\ vf.align > 0
          /\ vf.align % sargs.bytesPerSector = 0
          /\ fileIOSize % sargs.bytesPerSector = 0

C20_Witness ==
    /\ ~args.cached
    /\ args.bytesPerSector = 4096
    /\ pc = "check"
    /\ vtf.i = verifySize
    /\ vtf.align = 4096
    /\ Len(ioLog) >= 8

\* ---------------------------------------------------------------- C18
\* The product of three DWORDs, exactly: it has up to 12 bytes.
ExactProduct(a, b, c) == Multiply(a, Multiply(b, c, 8), 12)

\* A 12-byte value is representable in the program's 64-bit type: int64_t in
\* maxspace, uint64_t in spacechk.
FitsSpaceType(x) ==
    /\ \A k \in 9..12 : x[k] = 0
    /\ prog = "maxspace" => x[8] < 128

\* main has computed freeSpace and totalSpace.
SizesComputed == start.pos \in {"phases", "exit"} /\ start.stats \in DiskStats

\* C18: free space and total space are, in both programs, the exact product
\* bytes-per-sector * sectors-per-cluster * clusters of the 32-bit statistics
\* whenever that product fits the program's 64-bit type: nothing wraps at 2^32.
C18_ExactSpace ==
    SizesComputed =>
        /\ FitsSpaceType(ExactProduct(start.stats.bytesPerSector,
                                      start.stats.sectorsPerCluster,
                                      start.stats.freeClusters))
             => Widen(start.freeSpace, 12) =
                  ExactProduct(start.stats.bytesPerSector,
                               start.stats.sectorsPerCluster,
                               start.stats.freeClusters)
        /\ FitsSpaceType(ExactProduct(start.stats.bytesPerSector,
                                      start.stats.sectorsPerCluster,
                                      start.stats.totalClusters))
             => Widen(start.totalSpace, 12) =
                  ExactProduct(start.stats.bytesPerSector,
                               start.stats.sectorsPerCluster,
                               start.stats.totalClusters)

\* Free space of 2^32 bytes or more that fits the 64-bit type was computed,
\* and main went on to its first phase.
C18_Witness ==
    /\ SizesComputed
    /\ start.pos = "phases"
    /\ FitsSpaceType(ExactProduct(start.stats.bytesPerSector,
                                  start.stats.sectorsPerCluster,
                                  start.stats.freeClusters))
    /\ \E k \in 5..8 : start.freeSpace[k] # 0

\* ---------------------------------------------------------------- C19
\* No argument names a path: every argument is an option of the program.
PathMissing == \A i \in 1..Len(argv) : argv[i] \in Options(prog)

\* An argument names a drive that does not exist.
PathInvalid == \E i \in 1..Len(argv) : argv[i] = InvalidPath

\* main called a phase or queried the drive.
MainWentOn ==
    Range(start.calls) \cap {"GetDiskFreeSpaceA", "CreateVerifyFile", "CreateFiles",
                             "VerifyFiles", "DeleteFiles"} # {}

\* C19: with the drive path missing or invalid, either program prints the
\* usage message and exits non-zero, and neither queries the drive statistics
\* nor creates, verifies or deletes anything.
C19_Claim ==
    (PathMissing \/ PathInvalid) /\ start.pos # "args" =>
        /\ start.pos = "exit"
        /\ start.status = 1
        /\ "Usage" \in Range(start.calls)
        /\ ~MainWentOn

\* ---------------------------------------------------------------- C21
\* C21: with reads enabled, the buffer holds 0xFF in every byte when the read
\* of a block is issued, and a buffer that still holds 0xFF in every byte
\* after a read that reported success is reported as a mismatch at that
\* block's offset: no marker the pass can expect equals the all-0xFF word.
C21_SentinelCaught ==
    [][ /\ pc = "read" => vtf.verifyBuffer = Memset(args.bytesPerSector, 255)
        /\ (pc = "check" /\ vtf.verifyBuffer = Memset(args.bytesPerSector, 255)) =>
              /\ returned' = "false"
              /\ fault' = [kind |-> "mismatch", at |-> vtf.i]
              /\ output' = Append(output, OutputSize("", vtf.i))
      ]_vars

\* A read past the first block left the buffer untouched and the pass ended
\* with a mismatch at that block.
C21_Witness ==
    /\ dev.kind = "mute"
    /\ ~args.cached
    /\ returned = "false"
    /\ fault.kind = "mismatch"
    /\ fault.at > 0
    /\ fault.at >= dev.at
    /\ vtf.verifyBuffer = Memset(args.bytesPerSector, 255)

\* ---------------------------------------------------------------- C22
\* main is at the return of a phase.
AtPhaseReturn == spc \in {"cf_ret", "vf_ret", "df_ret"}

\* The phases requested that come after the one main is returning from.
PhasesLeft ==
    CASE spc = "cf_ret" -> flags \cap {"verify", "delete"}
      [] spc = "vf_ret" -> flags \cap {"delete"}
      [] OTHER          -> {}

\* C22: spacechk runs the requested phases in the order creation,
\* verification, cleanup; a phase that returns failure ends the program with
\* exit status 1 and no later phase begins (so nothing is deleted after a
\* failed creation or verification); exit status 0 is given only at the
\* successful return of the last requested phase.
C22_PhaseOrder ==
    [][ /\ (spc # "cf_begin" /\ spc' = "cf_begin") =>
              spc = "idle" /\ "create" \in flags'
        /\ (spc # "vf_begin" /\ spc' = "vf_begin") =>
              /\ "verify" \in flags'
              /\ \/ spc = "idle" /\ "create" \notin flags'
                 \/ spc = "cf_ret" /\ sret
        /\ (spc # "df_begin" /\ spc' = "df_begin") =>
              /\ "delete" \in flags'
              /\ \/ spc = "idle" /\ flags' \cap {"create", "verify"} = {}
                 \/ spc = "cf_ret" /\ sret /\ "verify" \notin flags
                 \/ spc = "vf_ret" /\ sret
        /\ (AtPhaseReturn /\ ~sret) =>
              /\ spc' = "idle"
              /\ exit' = 1
              /\ dir' = dir
        /\ (AtPhaseReturn /\ spc' = "idle") =>
              exit' = (IF sret /\ PhasesLeft = {} THEN 0 ELSE 1)
        /\ (AtPhaseReturn /\ sret /\ PhasesLeft = {}) => spc' = "idle"
      ]_vars

\* Verification failed after a successful creation with cleanup requested:
\* the program has ended with status 1, DeleteFiles never began and the
\* segment files are still there.
C22_Witness ==
    /\ flags = {"create", "verify", "delete"}
    /\ spc = "idle"
    /\ exit = 1
    /\ lastCreate = "ok"
    /\ df = DfIdle
    /\ made # <<>>
    /\ \A k \in 1..Len(made) : SegmentName(made[k]) \in DOMAIN dir

\* ---------------------------------------------------------------- C23
\* CreateFile in VerifyTheFile has answered INVALID_HANDLE_VALUE.
OpenFailed == pc \notin {"off", "open"} /\ vtf.verifyFile = "INVALID"

\* C23: when the allocated file cannot be opened, VerifyTheFile issues no
\* seek, write or read and returns failure, never success.
C23_OpenFailureFails ==
    OpenFailed =>
        /\ ioLog = <<>>
        /\ pc \in {"size", "done"}
        /\ returned # "true"
        /\ pc = "done" => returned = "false"

\* The open failed and VerifyTheFile has returned.
C23_Witness ==
    /\ OpenFailed
    /\ pc = "done"
    /\ returned = "false"
    /\ ioLog = <<>>

\* ---------------------------------------------------------------- C24
\* The writes and reads VerifyTheFile has issued.
Transfers == {k \in 1..Len(ioLog) : ioLog[k][1] \in {"write", "read"}}

\* C24: for a file whose size is a multiple of the sector size, every range
\* [i, i + bytesPerSector) VerifyTheFile writes or reads starts on a 10 MiB
\* stride and lies inside [0, file size), and the file keeps the size
\* VerifyTheFile found: no write goes past its end or extends it.
C24_InsideFile ==
    (pc \notin {"off", "open", "size"} /\ vtf.fileSize % args.bytesPerSector = 0) =>
        /\ \A k \in Transfers :
              /\ ioLog[k][2] >= 0
              /\ ioLog[k][2] % verifySize = 0
              /\ ioLog[k][3] = args.bytesPerSector
              /\ ioLog[k][2] + ioLog[k][3] <= vtf.fileSize
        /\ vtf.verifyFile = "open" => fileLen = vtf.fileSize
        /\ Transfers # {} => fileLen = vtf.fileSize

\* The last sector of a file that ends one sector past a stride has been
\* written and read back: the range ends exactly at the end of the file.
C24_Witness ==
    /\ pc = "check"
    /\ vtf.i > 0
    /\ vtf.i + args.bytesPerSector = vtf.fileSize
    /\ fileLen = vtf.fileSize
    /\ \E k \in Transfers : ioLog[k] = <<"read", vtf.i, args.bytesPerSector>>

\* ---------------------------------------------------------------- C25
\* What VerifyFiles finds wrong with one entry, whenever it is enumerated:
\* nothing for a subdirectory; for a file a length other than 10 MiB, a name
\* without a sequence number, or (unless keepGoing) a word that is not
\* sequence number + 1.
EntryFails(n, keepGoing) ==
    /\ ~dir[n].isDir
    /\ \/ dir[n].len # fileIOSize
       \/ Wcschr(sargs.pathName \o n, "-") = 0
       \/ /\ ~keepGoing
          /\ \E o \in 0..3 :
                dir[n].data.word[o * (fileIOSize \div 4)] #
                   Marker(ScanHex(After(sargs.pathName \o n,
                                        Wcschr(sargs.pathName \o n, "-"))).value)

\* The result of VerifyFiles as a function of the directory and keepGoing
\* alone.
VerdictOf(keepGoing) ==
    /\ DOMAIN dir # {}
    /\ \A n \in DOMAIN dir : ~EntryFails(n, keepGoing)

\* C25: on a device whose calls all succeed, the value VerifyFiles returns
\* is determined by the set of segment files, their contents and the
\* keep-verifying setting: it is the same for every order in which the
\* enumeration returns the entries.
C25_OrderIndependent ==
    (spc = "vf_ret" /\ sdev.kind # "flaky") =>
        sret = VerdictOf("keepverifying" \in flags)

\* Two files, the sound one enumerated first and verified, the other one
\* second: VerifyFiles has returned failure on the second.
C25_Witness ==
    /\ spc = "vf_ret"
    /\ sdev.kind # "flaky"
    /\ Cardinality(DOMAIN dir) = 2
    /\ "keepverifying" \notin flags
    /\ ~sret
    /\ sfault.kind = "mismatch"
    /\ vf.count = 1
    /\ vf.rest = {}
    /\ \E n \in DOMAIN dir : ~EntryFails(n, FALSE)

Init == ((InitOne /\ SegIdle) \/ (InitSeg /\ OneIdle)) /\ StartIdle

\* The two programs are separate executables: a behaviour is a run of one.
Next ==
    \/ CVF_Privilege /\ UNCHANGED <<segVars, startVars>>
    \/ CVF_Create /\ UNCHANGED <<segVars, startVars>>
    \/ CVF_Seek /\ UNCHANGED <<segVars, startVars>>
    \/ CVF_SetEnd /\ UNCHANGED <<segVars, startVars>>
    \/ CVF_SetValid /\ UNCHANGED <<segVars, startVars>>
    \/ CVF_Close /\ UNCHANGED <<segVars, startVars>>
    \/ Main_Delete /\ UNCHANGED <<segVars, startVars>>
    \/ VTF_Open /\ UNCHANGED <<mainVars, segVars, startVars>>
    \/ VTF_GetSize /\ UNCHANGED <<mainVars, segVars, startVars>>
    \/ VTF_Alloc /\ UNCHANGED <<mainVars, segVars, startVars>>
    \/ VTF_Loop /\ UNCHANGED <<mainVars, segVars, startVars>>
    \/ VTF_Seek /\ UNCHANGED <<mainVars, segVars, startVars>>
    \/ VTF_Write /\ UNCHANGED <<mainVars, segVars, startVars>>
    \/ VTF_SeekBack /\ UNCHANGED <<mainVars, segVars, startVars>>
    \/ VTF_Read /\ UNCHANGED <<mainVars, segVars, startVars>>
    \/ VTF_Check /\ UNCHANGED <<mainVars, segVars, startVars>>
    \/ VTF_NextBlock /\ UNCHANGED <<mainVars, segVars, startVars>>
    \/ Main_Start /\ UNCHANGED <<oneVars, startVars>>
    \/ CF_Begin /\ UNCHANGED <<oneVars, df, startVars>>
    \/ CF_Loop /\ UNCHANGED <<oneVars, df, startVars>>
    \/ CF_Create /\ UNCHANGED <<oneVars, df, startVars>>
    \/ CF_Write /\ UNCHANGED <<oneVars, df, startVars>>
    \/ Main_AfterCreate /\ UNCHANGED <<oneVars, startVars>>
    \/ VF_Begin /\ UNCHANGED <<oneVars, df, startVars>>
    \/ VF_Entry /\ UNCHANGED <<oneVars, df, startVars>>
    \/ VF_Read /\ UNCHANGED <<oneVars, df, startVars>>
    \/ VF_Check /\ UNCHANGED <<oneVars, df, startVars>>
    \/ VF_Next /\ UNCHANGED <<oneVars, df, startVars>>
    \/ Main_AfterVerify /\ UNCHANGED <<oneVars, startVars>>
    \/ DF_Begin /\ UNCHANGED <<oneVars, startVars>>
    \/ DF_Entry /\ UNCHANGED <<oneVars, startVars>>
    \/ DF_Next /\ UNCHANGED <<oneVars, startVars>>
    \/ Main_AfterDelete /\ UNCHANGED <<oneVars, startVars>>

Spec == Init /\ [][Next]_vars

\* main alone, from the command line to the call of its first phase
MainInit == OneIdle /\ SegIdle /\ InitStart

MainNext ==
    \/ Main_ParseArgs /\ UNCHANGED <<oneVars, segVars>>
    \/ Main_GetDiskFreeSpace /\ UNCHANGED <<oneVars, segVars>>
    \/ Main_Sizes /\ UNCHANGED <<oneVars, segVars>>

MainSpec == MainInit /\ [][MainNext]_vars

====
